---- MODULE Spec2Model ----
(***************************************************************************)
(* Docker stats viewer (main.go): snapshot parser, catalog loader,         *)
(* time-series reconstruction, aggregation, and the HTTP server with its   *)
(* background refresh goroutine.                                           *)
(*                                                                         *)
(* Time: an instant is a number of ticks since 2024-01-01 00:00:00 UTC,    *)
(* TicksPerSec ticks to the second; a time.Time value is [ticks, off]      *)
(* where off is the zone offset in seconds of its Location.                *)
(* Percentages: a float64 parsed from a text with at most two fractional   *)
(* digits is held exactly, in hundredths.                                  *)
(* Texts that the code takes apart (percentage texts) are sequences of     *)
(* one-character strings; texts it only copies are strings.                *)
(***************************************************************************)
EXTENDS Integers, Sequences, FiniteSets, TLC

VARIABLES
  dir,          \* the entries of stats/ (indices into Universe), as a set
  dirReadable,  \* whether os.ReadDir("stats/") succeeds
  clock,        \* wall clock, in ticks
  tz,           \* zone offset of time.Local, in seconds
  mainpc,       \* position of main(): "start", "serving", "fatal"; "pure" in PureSpec
  statsFiles,   \* main's captured variable statsFiles: slice header [arr, len]
  serverData,   \* *ServerData: [Files |-> slice header [arr, len]]
  rpc,          \* position of the refresh goroutine
  rloc,         \* locals of the refresh goroutine
  nticks,       \* ticker ticks handled so far
  hpc,          \* position of the request handler in flight
  hreq,         \* the request in flight
  hloc,         \* locals of the handler in flight
  resp,         \* the response of the last completed request
  versions,     \* the catalogs built for the Store: the first one and every
                \* one a refresh has gone on to publish
  lastTick,     \* what the last handled tick met, and the Store when it began
  loaded,       \* PureSpec: result of the last loadAllStatsFiles call
  qin,          \* PureSpec: argument of the last query
  qout          \* PureSpec: result of the last query

vars == <<dir, dirReadable, clock, tz, mainpc, statsFiles, serverData, rpc, rloc,
          nticks, hpc, hreq, hloc, resp, versions, lastTick, loaded, qin, qout>>

serverVars == <<mainpc, statsFiles, serverData, rpc, rloc, nticks, hpc, hreq, hloc,
                resp, versions, lastTick>>

pureVars == <<loaded, qin, qout>>

(***************************************************************************)
(* Bounds                                                                  *)
(***************************************************************************)
MaxDirEntries == 3      \* entries in stats/ at once (PureSpec)
MaxServerEntries == 2   \* entries in stats/ at once (Spec)
MaxTicks == 1           \* ticker ticks handled (Spec)
MaxFairTicks == 2       \* ticker ticks handled (FairSpec)

TicksPerSec == 2        \* sub-second resolution of time.Now()

(***************************************************************************)
(* time                                                                    *)
(***************************************************************************)
\* t.After(u), t.Before(u): compare instants, the Location plays no part.
\* Two time.Now() values compare by their monotonic readings, every other
\* pair by wall time; the clock of the model never steps backwards, so the
\* two readings order alike and an instant is one number.
After(t, u) == t.ticks > u.ticks

Before(t, u) == t.ticks < u.ticks

FloorDiv(a, b) == IF a >= 0 THEN a \div b ELSE -((-a + b - 1) \div b)

\* t.Format("2006-01-02 15:04:05"): wall-clock seconds in t's Location,
\* fraction dropped.  The text is held as the number of seconds it shows
\* after "2024-01-01 00:00:00"; texts of this layout order as these numbers.
FormatDisplay(t) == FloorDiv(t.ticks, TicksPerSec) + t.off

\* time.Parse("2006-01-02 15:04:05", s): the shown seconds read as UTC
ParseDisplay(s) == [ticks |-> s * TicksPerSec, off |-> 0]

\* time.Now(): the clock in time.Local
Now(c, z) == [ticks |-> c, off |-> z]

\* the zero time.Time, year 1, long before every other instant
ZeroTime == [ticks |-> -100 * TicksPerSec, off |-> 0]

DateVal == [d \in {"2024-01-01"} |-> 0]

TimeVal == [d \in {"00-00-01", "00-00-02", "00-00-03", "00-00-04"} |->
              CASE d = "00-00-01" -> 1 [] d = "00-00-02" -> 2
                [] d = "00-00-03" -> 3 [] OTHER -> 4]

\* time.Parse("2006-01-02_15-04-05", p0 + "_" + p1); a part is [s, e]:
\* the segment and, for the last part of a name, the extension glued to it
ParseFileLayout(p0, p1) ==
  IF p0.e = "" /\ p1.e = "" /\ p0.s \in DOMAIN DateVal /\ p1.s \in DOMAIN TimeVal
  THEN [ok |-> TRUE, t |-> [ticks |-> (DateVal[p0.s] + TimeVal[p1.s]) * TicksPerSec, off |-> 0]]
  ELSE [ok |-> FALSE, t |-> ZeroTime]

(***************************************************************************)
(* float64.  A natural number is a little-endian sequence of limbs below   *)
(* LimbBase with no zero limb at the top; a finite float64 is              *)
(* (-1)^neg * m * 2^e with m zero or of exactly MantBits bits.  Exponent   *)
(* overflow and subnormals lie far from the values of the model and are    *)
(* not represented.                                                        *)
(***************************************************************************)
\* F applied to the value of v, computed once: a result held in a local
\* variable
With(v, F(_)) == CHOOSE y \in {F(x) : x \in {v}} : TRUE

MantBits == 53

LimbBits == 15

LimbBase == 2^LimbBits

Limb(a, i) == IF i <= Len(a) THEN a[i] ELSE 0

RECURSIVE BTrim(_)
BTrim(a) ==
  IF a # <<>> /\ a[Len(a)] = 0 THEN BTrim(SubSeq(a, 1, Len(a) - 1)) ELSE a

RECURSIVE BFromInt(_)
BFromInt(n) == IF n = 0 THEN <<>> ELSE <<n % LimbBase>> \o BFromInt(n \div LimbBase)

BAdd(a, b) ==
  LET n == (IF Len(a) > Len(b) THEN Len(a) ELSE Len(b)) + 1
      carry[i \in 0..n] ==
        IF i = 0 THEN 0 ELSE (Limb(a, i) + Limb(b, i) + carry[i - 1]) \div LimbBase
  IN BTrim([i \in 1..n |-> (Limb(a, i) + Limb(b, i) + carry[i - 1]) % LimbBase])

\* a - b for a >= b
BSub(a, b) ==
  LET n == Len(a)
      borrow[i \in 0..n] ==
        IF i = 0 THEN 0
        ELSE IF Limb(a, i) - Limb(b, i) - borrow[i - 1] < 0 THEN 1 ELSE 0
  IN BTrim([i \in 1..n |-> (Limb(a, i) - Limb(b, i) - borrow[i - 1] + LimbBase) % LimbBase])

BLess(a, b) ==
  \/ Len(a) < Len(b)
  \/ /\ Len(a) = Len(b)
     /\ \E i \in 1..Len(a) : a[i] < b[i] /\ \A j \in (i + 1)..Len(a) : a[j] = b[j]

\* a * k for 0 <= k <= LimbBase
BMulSmall(a, k) ==
  LET n == Len(a) + 1
      carry[i \in 0..n] ==
        IF i = 0 THEN 0 ELSE (Limb(a, i) * k + carry[i - 1]) \div LimbBase
  IN BTrim([i \in 1..n |-> (Limb(a, i) * k + carry[i - 1]) % LimbBase])

\* a * 2^s
BShl(a, s) ==
  IF a = <<>> THEN <<>>
  ELSE [i \in 1..(s \div LimbBits) |-> 0] \o BMulSmall(a, 2^(s % LimbBits))

\* quotient and remainder of a by n, 0 < n <= LimbBase
BDivSmall(a, n) ==
  LET len == Len(a)
      \* rem[j]: the remainder after the j top limbs
      rem[j \in 0..len] ==
        IF j = 0 THEN 0 ELSE (rem[j - 1] * LimbBase + a[len - j + 1]) % n
  IN [quo |-> BTrim([i \in 1..len |-> (rem[len - i] * LimbBase + a[i]) \div n]),
      rem |-> rem[len]]

\* floor(a / 2^s)
BShr(a, s) ==
  IF s \div LimbBits >= Len(a) THEN <<>>
  ELSE BDivSmall(SubSeq(a, s \div LimbBits + 1, Len(a)), 2^(s % LimbBits)).quo

BBitLen(a) ==
  IF a = <<>> THEN 0
  ELSE LimbBits * (Len(a) - 1)
       + (CHOOSE k \in 1..LimbBits : 2^(k - 1) <= a[Len(a)] /\ a[Len(a)] < 2^k)

\* bit i of a, bit 0 the lowest
BBit(a, i) == (Limb(a, i \div LimbBits + 1) \div 2^(i % LimbBits)) % 2

\* a mod 2^s = 0
BLowZero(a, s) == a = BShl(BShr(a, s), s)

NaN == [k |-> "nan", neg |-> FALSE, m |-> <<>>, e |-> 0]

Inf(neg) == [k |-> "inf", neg |-> neg, m |-> <<>>, e |-> 0]

ZeroFloat == [k |-> "fin", neg |-> FALSE, m |-> <<>>, e |-> 0]

\* the float64 nearest to (-1)^neg * (m + t) * 2^e, ties to even, where t is
\* 0 or, if sticky, a fraction strictly between 0 and 1
FRound(neg, mag, e, sticky) ==
  With(mag, LAMBDA m :
    IF m = <<>> THEN [k |-> "fin", neg |-> neg, m |-> <<>>, e |-> 0]
    ELSE With(BBitLen(m) - MantBits, LAMBDA s :
      IF s <= 0 THEN [k |-> "fin", neg |-> neg, m |-> BShl(m, -s), e |-> e + s]
      ELSE With(BShr(m, s), LAMBDA q :
        With(IF /\ BBit(m, s - 1) = 1
                /\ (sticky \/ ~BLowZero(m, s - 1) \/ BBit(q, 0) = 1)
             THEN BAdd(q, <<1>>) ELSE q, LAMBDA r :
          IF BBitLen(r) > MantBits
          THEN [k |-> "fin", neg |-> neg, m |-> BShr(r, 1), e |-> e + s + 1]
          ELSE [k |-> "fin", neg |-> neg, m |-> r, e |-> e + s]))))

IsZero(x) == x.k = "fin" /\ x.m = <<>>

\* x + y for finite x and y that are not zero
AddFinite(x, y) ==
  With(IF x.e < y.e THEN x.e ELSE y.e, LAMBDA e0 :
    With(BShl(x.m, x.e - e0), LAMBDA a :
      With(BShl(y.m, y.e - e0), LAMBDA b :
        IF x.neg = y.neg THEN FRound(x.neg, BAdd(a, b), e0, FALSE)
        ELSE IF a = b THEN ZeroFloat
        ELSE IF BLess(a, b) THEN FRound(y.neg, BSub(b, a), e0, FALSE)
        ELSE FRound(x.neg, BSub(a, b), e0, FALSE))))

\* x + y
FAdd(xarg, yarg) ==
  With(xarg, LAMBDA x : With(yarg, LAMBDA y :
    IF x.k = "nan" \/ y.k = "nan" THEN NaN
    ELSE IF x.k = "inf" /\ y.k = "inf" THEN (IF x.neg = y.neg THEN x ELSE NaN)
    ELSE IF x.k = "inf" THEN x
    ELSE IF y.k = "inf" THEN y
    ELSE IF IsZero(x) /\ IsZero(y) THEN [ZeroFloat EXCEPT !.neg = x.neg /\ y.neg]
    ELSE IF IsZero(x) THEN y
    ELSE IF IsZero(y) THEN x
    ELSE AddFinite(x, y)))

\* x / float64(n), 0 < n < LimbBase
FDivInt(xarg, n) ==
  With(xarg, LAMBDA x :
    IF x.k # "fin" \/ IsZero(x) THEN x
    ELSE With(BDivSmall(BShl(x.m, LimbBits + 2), n), LAMBDA d :
           FRound(x.neg, d.quo, x.e - (LimbBits + 2), d.rem # 0)))

\* x < y
FloatLt(xarg, yarg) ==
  With(xarg, LAMBDA x : With(yarg, LAMBDA y :
    IF x.k = "nan" \/ y.k = "nan" THEN FALSE
    ELSE IF x.k = "inf" \/ y.k = "inf"
         THEN IF x.k = "inf" /\ y.k = "inf" THEN x.neg /\ ~y.neg
              ELSE IF x.k = "inf" THEN x.neg ELSE ~y.neg
    ELSE IF IsZero(x) /\ IsZero(y) THEN FALSE
    ELSE IF IsZero(x) THEN ~y.neg
    ELSE IF IsZero(y) THEN x.neg
    ELSE IF x.neg # y.neg THEN x.neg
    ELSE With(IF x.e < y.e THEN x.e ELSE y.e, LAMBDA e0 :
           With(BShl(x.m, x.e - e0), LAMBDA a :
             With(BShl(y.m, y.e - e0), LAMBDA b :
               IF x.neg THEN BLess(b, a) ELSE BLess(a, b))))))

\* x > y
FloatGt(x, y) == FloatLt(y, x)

\* the float64 nearest to (-1)^neg * n / 10^f, n < 2^31, 10^f <= LimbBase
FromDecimal(neg, n, f) ==
  With(BDivSmall(BShl(BFromInt(n), MantBits + LimbBits + 2), 10^f), LAMBDA d :
    FRound(neg, d.quo, -(MantBits + LimbBits + 2), d.rem # 0))

(***************************************************************************)
(* strconv.ParseFloat and strings.TrimSuffix on percentage texts           *)
(***************************************************************************)
DigitVal == [c \in {"0","1","2","3","4","5","6","7","8","9"} |->
              CASE c = "0" -> 0 [] c = "1" -> 1 [] c = "2" -> 2 [] c = "3" -> 3
                [] c = "4" -> 4 [] c = "5" -> 5 [] c = "6" -> 6 [] c = "7" -> 7
                [] c = "8" -> 8 [] OTHER -> 9]

IsDigits(cs) == \A i \in 1..Len(cs) : cs[i] \in DOMAIN DigitVal

RECURSIVE DigitsVal(_)
DigitsVal(cs) ==
  IF cs = <<>> THEN 0
  ELSE 10 * DigitsVal(SubSeq(cs, 1, Len(cs) - 1)) + DigitVal[cs[Len(cs)]]

\* strings.TrimSuffix(s, "%")
TrimSuffixPct(cs) ==
  IF Len(cs) >= 1 /\ cs[Len(cs)] = "%" THEN SubSeq(cs, 1, Len(cs) - 1) ELSE cs

UpperToLower == [c \in {"A", "E", "F", "I", "N", "T", "Y"} |->
                   CASE c = "A" -> "a" [] c = "E" -> "e" [] c = "F" -> "f"
                     [] c = "I" -> "i" [] c = "N" -> "n" [] c = "T" -> "t"
                     [] OTHER -> "y"]

ToLower(cs) ==
  [i \in 1..Len(cs) |-> IF cs[i] \in DOMAIN UpperToLower THEN UpperToLower[cs[i]] ELSE cs[i]]

\* a text whose value the arithmetic above does not reach: evaluating it
\* stops the check
OutsideModel == CHOOSE v \in {} : TRUE

\* strconv.ParseFloat(s, 64) for the texts
\*   [sign] digits [. digits] [e [sign] digits],  [sign] inf,
\*   [sign] infinity,  nan   (letters of either case).
\* A text of no accepted form is a syntax error and the value returned with
\* it is 0; a decimal beyond the float64 range is a range error and the
\* value returned with it is +-Inf.  Hexadecimal forms and digits separated
\* by "_" are accepted by the library too and are not among the texts of
\* the model.
\* the decimal forms: mant is the text before the "e", expo the text after
\* it, hasExp whether there is an "e"
ParseDecimal(neg, mant, expo, hasExp) ==
  With(Len(expo) >= 1 /\ expo[1] = "-", LAMBDA eneg :
  With(IF Len(expo) >= 1 /\ expo[1] \in {"-", "+"} THEN Tail(expo) ELSE expo, LAMBDA edig :
  With({i \in 1..Len(mant) : mant[i] = "."}, LAMBDA dots :
  With(IF dots = {} THEN mant
       ELSE SubSeq(mant, 1, (CHOOSE i \in dots : TRUE) - 1), LAMBDA ip :
  With(IF dots = {} THEN <<>>
       ELSE SubSeq(mant, (CHOOSE i \in dots : TRUE) + 1, Len(mant)), LAMBDA fp :
    IF ~ /\ Cardinality(dots) <= 1
         /\ IsDigits(ip) /\ IsDigits(fp)
         /\ Len(ip) + Len(fp) >= 1
         /\ hasExp => (IsDigits(edig) /\ Len(edig) >= 1)
    THEN [val |-> ZeroFloat, err |-> TRUE]
    ELSE
      \* the value is n * 10^p
      With(DigitsVal(ip \o fp), LAMBDA n :
      With((IF eneg THEN -DigitsVal(edig) ELSE DigitsVal(edig)) - Len(fp), LAMBDA p :
        IF n = 0 THEN [val |-> [ZeroFloat EXCEPT !.neg = neg], err |-> FALSE]
        ELSE IF p > 308 THEN [val |-> Inf(neg), err |-> TRUE]
        ELSE IF p \in 0..4 /\ n < 10^5
             THEN [val |-> FromDecimal(neg, n * 10^p, 0), err |-> FALSE]
        ELSE IF p \in -4..-1 THEN [val |-> FromDecimal(neg, n, -p), err |-> FALSE]
        ELSE OutsideModel)))))))

ParseFloat(cs) ==
  With(Len(cs) >= 1 /\ cs[1] \in {"-", "+"}, LAMBDA signed :
  With(Len(cs) >= 1 /\ cs[1] = "-", LAMBDA neg :
  With(ToLower(IF signed THEN Tail(cs) ELSE cs) \o <<>>, LAMBDA body :
  With({i \in 1..Len(body) : body[i] = "e"}, LAMBDA es :
    IF body \in {<<"i","n","f">>, <<"i","n","f","i","n","i","t","y">>}
    THEN [val |-> Inf(neg), err |-> FALSE]
    ELSE IF ~signed /\ body = <<"n","a","n">> THEN [val |-> NaN, err |-> FALSE]
    ELSE IF es = {} THEN ParseDecimal(neg, body, <<>>, FALSE)
    ELSE With(CHOOSE i \in es : \A j \in es : i <= j, LAMBDA e1 :
           With(SubSeq(body, 1, e1 - 1), LAMBDA mant :
             With(SubSeq(body, e1 + 1, Len(body)), LAMBDA expo :
               ParseDecimal(neg, mant, expo, TRUE))))))))

(***************************************************************************)
(* The input directory: what the files of stats/ can be                    *)
(***************************************************************************)
Pct010  == <<"0",".","1","0","%">>
Pct1000 == <<"1","0",".","0","0","%">>
Pct2000 == <<"2","0",".","0","0","%">>
Pct3000 == <<"3","0",".","0","0","%">>
Pct4000 == <<"4","0",".","0","0","%">>
Pct750  == <<"7",".","5","%">>
PctBad  == <<"-","-","%">>
PctNone == <<>>
PctNaN  == <<"N","a","N","%">>
PctHuge == <<"1","e","9","9","9","%">>

Stat(id, name, cpu, mem, usage) ==
  [ID |-> id, Name |-> name, CPUPerc |-> cpu, MemPerc |-> mem, MemUsage |-> usage,
   NetIO |-> "1kB / 2kB", BlockIO |-> "0B / 0B", PIDs |-> "3"]

RecLine(s) == [kind |-> "rec", stat |-> s]

BlankLine == [kind |-> "blank", stat |-> Stat("", "", <<>>, <<>>, "")]

BadLine == [kind |-> "bad", stat |-> Stat("", "", <<>>, <<>>, "")]

\* a line longer than the scanner's buffer (bufio.MaxScanTokenSize): Scan
\* stops there and scanner.Err() is bufio.ErrTooLong
LongLine == [kind |-> "long", stat |-> Stat("", "", <<>>, <<>>, "")]

Part(s, e) == [s |-> s, e |-> e]

\* A directory entry: the name as its "_"-separated parts, whether it is a
\* directory, whether it can be opened, and its lines.
Entry(parts, isDir, canOpen, lines) ==
  [parts |-> parts, isDir |-> isDir, canOpen |-> canOpen, lines |-> lines]

\* The entries stats/ is drawn from, in file-name order (os.ReadDir sorts
\* by file name).
Universe == <<
  Entry(<<Part("2024-01-01", ""), Part("00-00-01", ""), Part("x", ".json")>>, FALSE, TRUE,
        <<RecLine(Stat("abc", "web", Pct010, Pct2000, "1MiB / 2GiB"))>>),
  Entry(<<Part("2024-01-01", ""), Part("00-00-01", ""), Part("y", ".json")>>, FALSE, TRUE,
        <<BlankLine, RecLine(Stat("def", "", PctBad, Pct750, "5MiB / 2GiB"))>>),
  Entry(<<Part("2024-01-01", ""), Part("00-00-02", ""), Part("bad", ".json")>>, FALSE, TRUE,
        <<RecLine(Stat("abc", "web", Pct2000, Pct2000, "1MiB / 2GiB")), BadLine>>),
  Entry(<<Part("2024-01-01", ""), Part("00-00-02", ""), Part("locked", ".json")>>, FALSE, FALSE,
        <<RecLine(Stat("abc", "web", Pct2000, Pct2000, "1MiB / 2GiB"))>>),
  Entry(<<Part("2024-01-01", ""), Part("00-00-03", ""), Part("x", ".json")>>, FALSE, TRUE,
        <<RecLine(Stat("abc", "", Pct010, Pct4000, "2MiB / 2GiB")), BlankLine,
          RecLine(Stat("def", "db", Pct750, PctNone, "6MiB / 2GiB"))>>),
  Entry(<<Part("2024-01-01", ""), Part("00-00-03", ""), Part("z", ".json")>>, TRUE, TRUE, <<>>),
  Entry(<<Part("2024-01-01", ""), Part("00-00-04", ".json")>>, FALSE, TRUE,
        <<RecLine(Stat("odd", "odd", PctNaN, PctHuge, "-- / --"))>>),
  Entry(<<Part("latest", ""), Part("x", ".json")>>, FALSE, TRUE,
        <<RecLine(Stat("abc", "web2", Pct010, Pct1000, "3MiB / 2GiB"))>>),
  Entry(<<Part("notes", ".txt")>>, FALSE, TRUE,
        <<RecLine(Stat("ghi", "cache", Pct1000, Pct1000, "1MiB / 2GiB"))>>),
  Entry(<<Part("old", ""), Part("y", ".json")>>, FALSE, TRUE,
        <<RecLine(Stat("def", "db", Pct010, Pct3000, "4MiB / 2GiB"))>>),
  Entry(<<Part("trunc", ""), Part("x", ".json")>>, FALSE, TRUE,
        <<RecLine(Stat("abc", "web", Pct2000, Pct2000, "1MiB / 2GiB")), LongLine,
          RecLine(Stat("def", "db", Pct750, Pct750, "5MiB / 2GiB"))>>)
>>

ContainerIDs == {"abc", "def", "ghi", "odd", "zzz"}

TZOffsets == {-2, 0, 2}

StartClocks == {3, 6}

\* the entries of a directory in os.ReadDir order
RECURSIVE SetToSortedSeq(_)
SetToSortedSeq(S) ==
  IF S = {} THEN <<>>
  ELSE LET m == CHOOSE x \in S : \A y \in S : x <= y
       IN <<m>> \o SetToSortedSeq(S \ {m})

ReadDir(d) == [k \in 1..Cardinality(d) |-> Universe[SetToSortedSeq(d)[k]]]

Dirs(n) == {d \in SUBSET (1..Len(Universe)) : Cardinality(d) <= n}

(***************************************************************************)
(* sort.Slice: for fewer than 12 elements the library runs insertion sort  *)
(* (insertionSortLessFunc), which is what is modelled; every slice of the  *)
(* model is shorter than that.  lt[i][j] is less(i, j) on the elements     *)
(* that were at i and j before the sort.                                   *)
(***************************************************************************)
Swap(p, i, j) == [p EXCEPT ![i] = p[j], ![j] = p[i]]

RECURSIVE SiftBack(_, _, _)
SiftBack(p, j, lt) ==
  IF j > 1 /\ lt[p[j]][p[j-1]] THEN SiftBack(Swap(p, j, j-1), j-1, lt) ELSE p

RECURSIVE InsertFrom(_, _, _)
InsertFrom(p, i, lt) ==
  IF i > Len(p) THEN p
  ELSE With(SiftBack(p, i, lt), LAMBDA q : InsertFrom(q, i+1, lt))

sortSlice(s, lt) ==
  With(InsertFrom([k \in 1..Len(s) |-> k], 2, lt), LAMBDA p :
    [k \in 1..Len(s) |-> s[p[k]]])

LessTable(s, Less(_, _)) ==
  [i \in 1..Len(s) |-> [j \in 1..Len(s) |-> Less(s[i], s[j])]]

(***************************************************************************)
(* parseStatsFile                                                          *)
(***************************************************************************)
ZeroStatsFile == [Name |-> <<>>, Timestamp |-> ZeroTime, Stats |-> <<>>]

\* the scanner loop with a line that does not decode passed over
RECURSIVE scanLines_mut(_, _, _)
scanLines_mut(lines, i, dockerStats) ==
  IF i > Len(lines) THEN [err |-> FALSE, stats |-> dockerStats]
  ELSE IF lines[i].kind \in {"blank", "bad"} THEN scanLines_mut(lines, i + 1, dockerStats)
  ELSE IF lines[i].kind = "long" THEN [err |-> TRUE, stats |-> dockerStats]
  ELSE scanLines_mut(lines, i + 1, Append(dockerStats, lines[i].stat))

\* the scanner loop and scanner.Err(), lines 100-118: blank lines skipped;
\* the first line that does not decode as a DockerStat, or that the scanner
\* cannot read, ends the scan with an error; stats is dockerStats as it is
\* at that point
RECURSIVE scanLines(_, _, _)
scanLines(lines, i, dockerStats) ==
  IF i > Len(lines) THEN [err |-> FALSE, stats |-> dockerStats]
  ELSE IF lines[i].kind = "blank" THEN scanLines(lines, i + 1, dockerStats)
  ELSE IF lines[i].kind = "bad" THEN [err |-> TRUE, stats |-> dockerStats]
  ELSE IF lines[i].kind = "long" THEN [err |-> TRUE, stats |-> dockerStats]
  ELSE scanLines(lines, i + 1, Append(dockerStats, lines[i].stat))

\* fileTimestamp with the zero time in place of the fallback
fileTimestamp_mut(parts, now) ==
  IF Len(parts) >= 3 /\ ParseFileLayout(parts[1], parts[2]).ok
  THEN ParseFileLayout(parts[1], parts[2]).t
  ELSE ZeroTime

\* the timestamp of a file name: parts are strings.Split(basename, "_"),
\* now is the time.Now() taken as the fallback
fileTimestamp(parts, now) ==
  IF Len(parts) >= 2   \* strings.Contains(basename, "_")
  THEN IF Len(parts) >= 3
       THEN LET r == ParseFileLayout(parts[1], parts[2])
            IN IF r.ok THEN r.t ELSE now
       ELSE now
  ELSE now

\* parseStatsFile keeping the lines read before a line that fails to decode
parseStatsFile_mut(e, now) ==
  IF ~e.canOpen THEN [err |-> TRUE, file |-> ZeroStatsFile]
  ELSE [err |-> FALSE,
        file |-> [Name |-> e.parts,
                  Timestamp |-> fileTimestamp(e.parts, now),
                  Stats |-> scanLines(e.lines, 1, <<>>).stats]]

parseStatsFile(e, now) ==
  IF ~e.canOpen THEN [err |-> TRUE, file |-> ZeroStatsFile]
  ELSE LET r == scanLines(e.lines, 1, <<>>)
       IN IF r.err THEN [err |-> TRUE, file |-> ZeroStatsFile]
          ELSE [err |-> FALSE,
                file |-> [Name |-> e.parts,
                          Timestamp |-> fileTimestamp(e.parts, now),
                          Stats |-> r.stats]]

(***************************************************************************)
(* loadAllStatsFiles                                                       *)
(***************************************************************************)
\* strings.HasSuffix(file.Name(), ".json")
HasJsonSuffix(e) == e.parts[Len(e.parts)].e = ".json"

\* lessNewestFirst with the comparison turned round
lessNewestFirst_mut(a, b) == Before(a.Timestamp, b.Timestamp)

\* sort.Slice less of the loader: newest first
lessNewestFirst(a, b) == After(a.Timestamp, b.Timestamp)

\* the loop over the entries: directories and other extensions skipped, a
\* file that fails to parse is logged and skipped
\* a file that fails to parse is logged and skipped.  The clock moves one
\* tick with every pass: pass k reads it as c + k - 1.
RECURSIVE loadLoop(_, _, _, _, _)
loadLoop(files, k, c, z, statsFiles0) ==
  IF k > Len(files) THEN statsFiles0
  ELSE IF files[k].isDir \/ ~HasJsonSuffix(files[k])
       THEN loadLoop(files, k + 1, c, z, statsFiles0)
       ELSE LET r == parseStatsFile(files[k], Now(c + k - 1, z))
            IN IF r.err THEN loadLoop(files, k + 1, c, z, statsFiles0)
               ELSE loadLoop(files, k + 1, c, z, Append(statsFiles0, r.file))

loadAllStatsFiles(d, readable, c, z) ==
  IF ~readable THEN [err |-> TRUE, files |-> <<>>]
  ELSE With(ReadDir(d), LAMBDA files :
         With(loadLoop(files, 1, c, z, <<>>), LAMBDA got :
           [err |-> FALSE, files |-> sortSlice(got, LessTable(got, lessNewestFirst))]))

\* the clock after a load of directory d that began at c
ClockAfterLoad(d, c) == c + Cardinality(d)

(***************************************************************************)
(* getContainerComparison                                                  *)
(***************************************************************************)
\* every (snapshot timestamp, record) of a catalog, in scan order: files in
\* slice order, records in file order
RECURSIVE scanOrder(_)
scanOrder(files) ==
  IF files = <<>> THEN <<>>
  ELSE [k \in 1..Len(Head(files).Stats) |->
          [ts |-> Head(files).Timestamp, stat |-> Head(files).Stats[k]]]
       \o scanOrder(Tail(files))

\* the ContainerDataPoint made of one record
dataPointOf(ts, stat) ==
  [Timestamp |-> FormatDisplay(ts),
   CPUPerc   |-> ParseFloat(TrimSuffixPct(stat.CPUPerc)).val,
   MemPerc   |-> ParseFloat(TrimSuffixPct(stat.MemPerc)).val,
   MemUsage  |-> stat.MemUsage,
   NetIO     |-> stat.NetIO,
   BlockIO   |-> stat.BlockIO,
   PIDs      |-> stat.PIDs]

\* lessOldestFirst with the comparison turned round
lessOldestFirst_mut(a, b) == After(ParseDisplay(a.Timestamp), ParseDisplay(b.Timestamp))

\* sort.Slice less of the data points: oldest first, on the re-parsed text
lessOldestFirst(a, b) == Before(ParseDisplay(a.Timestamp), ParseDisplay(b.Timestamp))

\* the loop of getContainerComparison over the records in scan order
RECURSIVE collectPoints(_, _, _, _, _)
collectPoints(recs, k, containerID, dataPoints, containerName) ==
  IF k > Len(recs) THEN [dataPoints |-> dataPoints, containerName |-> containerName]
  ELSE IF recs[k].stat.ID = containerID
       THEN collectPoints(recs, k + 1, containerID,
                          Append(dataPoints, dataPointOf(recs[k].ts, recs[k].stat)),
                          IF containerName = "" THEN recs[k].stat.Name ELSE containerName)
       ELSE collectPoints(recs, k + 1, containerID, dataPoints, containerName)

getContainerComparison(files, containerID) ==
  With(scanOrder(files), LAMBDA recs :
    With(collectPoints(recs, 1, containerID, <<>>, ""), LAMBDA r :
      [ContainerID   |-> containerID,
       ContainerName |-> r.containerName,
       Data          |-> sortSlice(r.dataPoints, LessTable(r.dataPoints, lessOldestFirst))]))

(***************************************************************************)
(* getContainerComparisonWithStats                                         *)
(***************************************************************************)
\* the scan of one series of values: sum from 0, max and min seeded with
\* the first
RECURSIVE scanStats(_, _, _, _, _)
scanStats(vals, k, sum, max, min) ==
  IF k > Len(vals) THEN [sum |-> sum, max |-> max, min |-> min]
  ELSE With(FAdd(sum, vals[k]), LAMBDA sum1 :
         With(IF FloatGt(vals[k], max) THEN vals[k] ELSE max, LAMBDA max1 :
           With(IF FloatLt(vals[k], min) THEN vals[k] ELSE min, LAMBDA min1 :
             scanStats(vals, k + 1, sum1, max1, min1))))

statsOf(vals) ==
  With(scanStats(vals, 1, ZeroFloat, vals[1], vals[1]), LAMBDA r :
    [avg |-> FDivInt(r.sum, Len(vals)), max |-> r.max, min |-> r.min])

\* getContainerComparisonWithStats without the early return of line 223 and
\* with the bounds checks off: the averages of no points are 0/0
getContainerComparisonWithStats_mut(files, containerID) ==
  With(getContainerComparison(files, containerID), LAMBDA comparison :
    IF Len(comparison.Data) = 0
    THEN [ContainerComparison |-> comparison,
          AvgCPU |-> NaN, MaxCPU |-> ZeroFloat, MinCPU |-> ZeroFloat,
          AvgMem |-> NaN, MaxMem |-> ZeroFloat, MinMem |-> ZeroFloat]
    ELSE With(statsOf([k \in 1..Len(comparison.Data) |-> comparison.Data[k].CPUPerc]),
           LAMBDA cpu :
         With(statsOf([k \in 1..Len(comparison.Data) |-> comparison.Data[k].MemPerc]),
           LAMBDA mem :
           [ContainerComparison |-> comparison,
            AvgCPU |-> cpu.avg, MaxCPU |-> cpu.max, MinCPU |-> cpu.min,
            AvgMem |-> mem.avg, MaxMem |-> mem.max, MinMem |-> mem.min])))

getContainerComparisonWithStats(files, containerID) ==
  With(getContainerComparison(files, containerID), LAMBDA comparison :
    IF Len(comparison.Data) = 0
    THEN [ContainerComparison |-> comparison,
          AvgCPU |-> ZeroFloat, MaxCPU |-> ZeroFloat, MinCPU |-> ZeroFloat,
          AvgMem |-> ZeroFloat, MaxMem |-> ZeroFloat, MinMem |-> ZeroFloat]
    ELSE With(statsOf([k \in 1..Len(comparison.Data) |-> comparison.Data[k].CPUPerc]),
           LAMBDA cpu :
         With(statsOf([k \in 1..Len(comparison.Data) |-> comparison.Data[k].MemPerc]),
           LAMBDA mem :
           [ContainerComparison |-> comparison,
            AvgCPU |-> cpu.avg, MaxCPU |-> cpu.max, MinCPU |-> cpu.min,
            AvgMem |-> mem.avg, MaxMem |-> mem.max, MinMem |-> mem.min])))

(***************************************************************************)
(* getAllContainerSummaries                                                *)
(***************************************************************************)
\* the keys of containerData
containerKeys(files) == {scanOrder(files)[k].stat.ID : k \in 1..Len(scanOrder(files))}

\* containerData[id]: the data points of id in scan order
RECURSIVE pointsOf(_, _, _)
pointsOf(recs, k, id) ==
  IF k > Len(recs) THEN <<>>
  ELSE IF recs[k].stat.ID = id
       THEN <<dataPointOf(recs[k].ts, recs[k].stat)>> \o pointsOf(recs, k + 1, id)
       ELSE pointsOf(recs, k + 1, id)

\* containerNames[id]: assigned at every record of id, the last one stays
RECURSIVE lastNameOf(_, _, _, _)
lastNameOf(recs, k, id, name) ==
  IF k > Len(recs) THEN name
  ELSE lastNameOf(recs, k + 1, id, IF recs[k].stat.ID = id THEN recs[k].stat.Name ELSE name)

\* sort.Slice less of the summaries: highest average CPU first
lessHighestAvgCPU(a, b) == FloatGt(a.AvgCPU, b.AvgCPU)

\* summaryOf with the minima seeded with 0 instead of the first point
summaryOf_mut(files, containerID) ==
  With(scanOrder(files), LAMBDA recs :
  With(pointsOf(recs, 1, containerID), LAMBDA raw :
  With(sortSlice(raw, LessTable(raw, lessOldestFirst)), LAMBDA dataPoints :
  With(statsOf([k \in 1..Len(dataPoints) |-> dataPoints[k].CPUPerc]), LAMBDA cpu :
  With(statsOf([k \in 1..Len(dataPoints) |-> dataPoints[k].MemPerc]), LAMBDA mem :
     [ContainerID   |-> containerID,
      ContainerName |-> lastNameOf(recs, 1, containerID, ""),
      DataPoints    |-> Len(dataPoints),
      AvgCPU |-> cpu.avg, MaxCPU |-> cpu.max,
      MinCPU |-> IF FloatLt(ZeroFloat, cpu.min) THEN ZeroFloat ELSE cpu.min,
      AvgMem |-> mem.avg, MaxMem |-> mem.max,
      MinMem |-> IF FloatLt(ZeroFloat, mem.min) THEN ZeroFloat ELSE mem.min,
      FirstSeen |-> dataPoints[1].Timestamp,
      LastSeen  |-> dataPoints[Len(dataPoints)].Timestamp])))))

summaryOf(files, containerID) ==
  With(scanOrder(files), LAMBDA recs :
  With(pointsOf(recs, 1, containerID), LAMBDA raw :
  With(sortSlice(raw, LessTable(raw, lessOldestFirst)), LAMBDA dataPoints :
  With(statsOf([k \in 1..Len(dataPoints) |-> dataPoints[k].CPUPerc]), LAMBDA cpu :
  With(statsOf([k \in 1..Len(dataPoints) |-> dataPoints[k].MemPerc]), LAMBDA mem :
     [ContainerID   |-> containerID,
      ContainerName |-> lastNameOf(recs, 1, containerID, ""),
      DataPoints    |-> Len(dataPoints),
      AvgCPU |-> cpu.avg, MaxCPU |-> cpu.max, MinCPU |-> cpu.min,
      AvgMem |-> mem.avg, MaxMem |-> mem.max, MinMem |-> mem.min,
      FirstSeen |-> dataPoints[1].Timestamp,
      LastSeen  |-> dataPoints[Len(dataPoints)].Timestamp])))))

\* the orders in which `range containerData` can visit the keys
MapOrders(keys) ==
  {o \in [1..Cardinality(keys) -> keys] : \A i, j \in DOMAIN o : i # j => o[i] # o[j]}

\* order is the iteration order the map range takes this time
RECURSIVE appendSummaries(_, _, _, _)
appendSummaries(files, order, k, summaries) ==
  IF k > Len(order) THEN summaries
  ELSE appendSummaries(files, order, k + 1, Append(summaries, summaryOf(files, order[k])))

getAllContainerSummaries(files, order) ==
  With(appendSummaries(files, order, 1, <<>>), LAMBDA summaries :
    sortSlice(summaries, LessTable(summaries, lessHighestAvgCPU)))

(***************************************************************************)
(* The handlers of "/api/container/" and "/container/" once they hold the  *)
(* slice they read from serverData.Files                                   *)
(***************************************************************************)
NoBody == [error |-> TRUE]

\* json.NewEncoder(w).Encode(comparison): a float64 that is NaN or +-Inf is
\* an unsupported value, and the encoder returns an error
jsonEncodes(comparison) ==
  \A k \in 1..Len(comparison.Data) :
    comparison.Data[k].CPUPerc.k = "fin" /\ comparison.Data[k].MemPerc.k = "fin"

apiContainerHandler(files, containerID) ==
  IF containerID = ""
  THEN [op |-> "api", status |-> 400, body |-> NoBody]
  ELSE With(getContainerComparison(files, containerID), LAMBDA comparison :
         IF jsonEncodes(comparison)
         THEN [op |-> "api", status |-> 200, body |-> comparison]
         ELSE [op |-> "api", status |-> 500, body |-> NoBody])

containerPageHandler(files, containerID) ==
  IF containerID = ""
  THEN [op |-> "page", status |-> 400, body |-> NoBody]
  ELSE With(getContainerComparisonWithStats(files, containerID), LAMBDA comparison :
         IF Len(comparison.ContainerComparison.Data) = 0
         THEN [op |-> "page", status |-> 404, body |-> NoBody]
         ELSE [op |-> "page", status |-> 200, body |-> comparison])

\* the container IDs a request path can carry
RequestIDs == ContainerIDs \cup {""}

(***************************************************************************)
(* PureSpec: the loader and the queries applied to every directory of the  *)
(* bounds, with no refresh running                                         *)
(***************************************************************************)
NilSlice == [arr |-> <<>>, len |-> 0]

NoLoad == [done |-> FALSE, err |-> FALSE, files |-> <<>>]

NoQuery == [op |-> "none", id |-> ""]

NoResult == [op |-> "none", status |-> 0, body |-> NoBody]

NoRequest == [op |-> "none", id |-> "", file |-> <<>>]

NoLocals == [selectedIndex |-> 0]

NoTick == [cmdErr |-> FALSE, loadErr |-> FALSE, n |-> -1, files |-> <<>>,
           sf |-> NilSlice, sd |-> NilSlice]

ServerOff ==
  /\ mainpc = "pure"
  /\ statsFiles = NilSlice
  /\ serverData = [Files |-> NilSlice]
  /\ rpc = "off" /\ rloc = NoLoad /\ nticks = 0
  /\ hpc = "off" /\ hreq = NoRequest /\ hloc = NoLocals /\ resp = NoResult
  /\ versions = {}
  /\ lastTick = NoTick

PureInit ==
  /\ dir \in Dirs(MaxDirEntries)
  /\ dirReadable \in BOOLEAN
  /\ clock \in StartClocks
  /\ tz \in TZOffsets
  /\ ServerOff
  /\ loaded = NoLoad /\ qin = NoQuery /\ qout = NoResult

PureLoad ==
  /\ ~loaded.done
  /\ \E r \in {loadAllStatsFiles(dir, dirReadable, clock, tz)} :
        /\ loaded' = [done |-> TRUE, err |-> r.err, files |-> r.files]
        /\ clock' = ClockAfterLoad(dir, clock)
  /\ UNCHANGED <<dir, dirReadable, tz, qin, qout>>
  /\ UNCHANGED serverVars

\* one call per run: the calls share no state
CanQuery == loaded.done /\ ~loaded.err /\ qin = NoQuery

PureSeries ==
  /\ CanQuery
  /\ \E id \in RequestIDs :
       /\ qin' = [op |-> "series", id |-> id]
       /\ qout' = [op |-> "series", status |-> 200,
                   body |-> getContainerComparison(loaded.files, id)]
  /\ UNCHANGED <<dir, dirReadable, clock, tz, loaded>>
  /\ UNCHANGED serverVars

PureStats ==
  /\ CanQuery
  /\ \E id \in RequestIDs :
       /\ qin' = [op |-> "stats", id |-> id]
       /\ qout' = [op |-> "stats", status |-> 200,
                   body |-> getContainerComparisonWithStats(loaded.files, id)]
  /\ UNCHANGED <<dir, dirReadable, clock, tz, loaded>>
  /\ UNCHANGED serverVars

PureSummaries ==
  /\ CanQuery
  /\ \E order \in MapOrders(containerKeys(loaded.files)) :
       /\ qin' = [op |-> "summaries", id |-> ""]
       /\ qout' = [op |-> "summaries", status |-> 200,
                   body |-> getAllContainerSummaries(loaded.files, order)]
  /\ UNCHANGED <<dir, dirReadable, clock, tz, loaded>>
  /\ UNCHANGED serverVars

\* a second call over the unchanged catalog; the map is ranged over anew
PureSummariesAgain ==
  /\ loaded.done /\ ~loaded.err /\ qin.op = "summaries"
  /\ \E order \in MapOrders(containerKeys(loaded.files)) :
       /\ qin' = [op |-> "again", id |-> ""]
       /\ qout' = [op |-> "again", status |-> 200,
                   body |-> getAllContainerSummaries(loaded.files, order),
                   before |-> qout.body]
  /\ UNCHANGED <<dir, dirReadable, clock, tz, loaded>>
  /\ UNCHANGED serverVars

PureApi ==
  /\ CanQuery
  /\ \E id \in RequestIDs :
       /\ qin' = [op |-> "api", id |-> id]
       /\ qout' = apiContainerHandler(loaded.files, id)
  /\ UNCHANGED <<dir, dirReadable, clock, tz, loaded>>
  /\ UNCHANGED serverVars

PurePage ==
  /\ CanQuery
  /\ \E id \in RequestIDs :
       /\ qin' = [op |-> "page", id |-> id]
       /\ qout' = containerPageHandler(loaded.files, id)
  /\ UNCHANGED <<dir, dirReadable, clock, tz, loaded>>
  /\ UNCHANGED serverVars

PureNext ==
  \/ PureLoad \/ PureSeries \/ PureStats \/ PureSummaries \/ PureSummariesAgain
  \/ PureApi \/ PurePage

PureSpec == PureInit /\ [][PureNext]_vars

(***************************************************************************)
(* The server: main(), the refresh goroutine and the request handlers.     *)
(*                                                                         *)
(* statsFiles and serverData.Files are slice headers that the refresh      *)
(* goroutine writes and the handlers read with no synchronisation.  A      *)
(* header is [arr, len]: the backing array (held by value) and the length  *)
(* word; the capacity word is read by no handler and is left out.  An      *)
(* assignment of a slice stores the words one by one, in an order the      *)
(* build chooses, so a handler can read a header whose words come from two *)
(* assignments.  A handler's read of a header is one step.                 *)
(***************************************************************************)
SliceOf(files) == [arr |-> files, len |-> Len(files)]

\* what lies behind the end of a backing array: the zeroed spare capacity
\* append left there, or whatever the allocator put next to it
ForeignStatsFile ==
  [Name |-> <<Part("?", "")>>, Timestamp |-> [ticks |-> 50 * TicksPerSec, off |-> 0],
   Stats |-> <<Stat("zzz", "?", Pct4000, Pct4000, "?")>>]

JunkFiles == {ZeroStatsFile, ForeignStatsFile}

\* the elements a header denotes
SliceView(h, junk) == [k \in 1..h.len |-> IF k <= Len(h.arr) THEN h.arr[k] ELSE junk]

\* the directories of the server runs
ServerEntries == {1, 5, 8}

ServerDirs == {d \in SUBSET ServerEntries : Cardinality(d) <= MaxServerEntries}

ServerTZOffsets == {2}

ServerStartClock == 3

\* the ticker period (5 * time.Minute), in ticks of the model
TickerPeriod == 2

\* startupAborts without the check of line 1110
startupAborts_mut(r) == r.err

\* main, lines 1105-1112: log.Fatal on a load error or an empty catalog
startupAborts(r) == r.err \/ Len(r.files) = 0

\* refreshSkipsEmpty without the check of line 1145
refreshSkipsEmpty_mut(newStatsFiles) == FALSE

\* the refresh goroutine, line 1145: an empty reload is skipped
refreshSkipsEmpty(newStatsFiles) == Len(newStatsFiles) = 0

Init ==
  /\ dir \in ServerDirs
  /\ dirReadable \in BOOLEAN
  /\ clock = ServerStartClock
  /\ tz \in ServerTZOffsets
  /\ mainpc = "start"
  /\ statsFiles = NilSlice
  /\ serverData = [Files |-> NilSlice]
  /\ rpc = "off" /\ rloc = NoLoad /\ nticks = 0
  /\ hpc = "off" /\ hreq = NoRequest /\ hloc = NoLocals /\ resp = NoResult
  /\ versions = {}
  /\ lastTick = NoTick
  /\ loaded = NoLoad /\ qin = NoQuery /\ qout = NoResult

\* main, lines 1104-1125 and 1278-1280: load, abort or start serving
Startup ==
  /\ mainpc = "start"
  /\ \E r \in {loadAllStatsFiles(dir, dirReadable, clock, tz)} :
        /\ clock' = ClockAfterLoad(dir, clock)
        /\ IF startupAborts(r)
           THEN /\ mainpc' = "fatal"
                /\ UNCHANGED <<statsFiles, serverData, rpc, hpc, versions>>
           ELSE /\ mainpc' = "serving"
                /\ statsFiles' = SliceOf(r.files)
                /\ serverData' = [Files |-> SliceOf(r.files)]
                /\ rpc' = "wait"
                /\ hpc' = "idle"
                /\ versions' = {r.files}
  /\ UNCHANGED <<dir, dirReadable, tz, rloc, nticks, hreq, hloc, resp, lastTick>>
  /\ UNCHANGED pureVars

(***************************************************************************)
(* the refresh goroutine, lines 1127-1154                                  *)
(***************************************************************************)
\* line 1131: a tick arrives, one of at most max
Tick(max) ==
  /\ rpc = "wait" /\ nticks < max
  /\ rpc' = "run"
  /\ nticks' = nticks + 1
  /\ clock' = clock + TickerPeriod
  /\ lastTick' = [cmdErr |-> FALSE, loadErr |-> FALSE, n |-> -1, files |-> <<>>,
                  sf |-> statsFiles, sd |-> serverData.Files]
  /\ UNCHANGED <<dir, dirReadable, tz, mainpc, statsFiles, serverData, rloc,
                 hpc, hreq, hloc, resp, versions>>
  /\ UNCHANGED pureVars

RefreshTick == Tick(MaxTicks)

\* lines 1133-1138: bash run.sh fails
RefreshRunFails ==
  /\ rpc = "run"
  /\ rpc' = "wait"
  /\ lastTick' = [lastTick EXCEPT !.cmdErr = TRUE]
  /\ UNCHANGED <<dir, dirReadable, clock, tz, mainpc, statsFiles, serverData, rloc, nticks,
                 hpc, hreq, hloc, resp, versions>>
  /\ UNCHANGED pureVars

\* lines 1133-1139: bash run.sh returns; stats/ is what it and the world
\* have made of it
RefreshRunDone ==
  /\ rpc = "run"
  /\ rpc' = "load"
  /\ \/ dir' \in ServerDirs /\ dirReadable' = TRUE
     \/ dir' = dir /\ dirReadable' = FALSE
  /\ UNCHANGED <<clock, tz, mainpc, statsFiles, serverData, rloc, nticks,
                 hpc, hreq, hloc, resp, versions, lastTick>>
  /\ UNCHANGED pureVars

\* lines 1140-1148: the reload and the two checks on it
RefreshLoad ==
  /\ rpc = "load"
  /\ \E r \in {loadAllStatsFiles(dir, dirReadable, clock, tz)} :
        /\ clock' = ClockAfterLoad(dir, clock)
        /\ lastTick' = [lastTick EXCEPT !.loadErr = r.err, !.n = Len(r.files),
                                        !.files = r.files]
        /\ IF r.err \/ refreshSkipsEmpty(r.files)
           THEN /\ rpc' = "wait"
                /\ UNCHANGED <<rloc, versions>>
           ELSE /\ rpc' = "write_statsFiles"
                /\ rloc' = [done |-> TRUE, err |-> FALSE, files |-> r.files,
                            pend |-> {"arr", "len"}]
                /\ versions' = versions \cup {r.files}
  /\ UNCHANGED <<dir, dirReadable, tz, mainpc, statsFiles, serverData, nticks,
                 hpc, hreq, hloc, resp>>
  /\ UNCHANGED pureVars

\* line 1149, statsFiles = newStatsFiles: one word of the header stored
RefreshWriteStatsFiles ==
  /\ rpc = "write_statsFiles"
  /\ \E w \in rloc.pend :
       /\ statsFiles' = [statsFiles EXCEPT ![w] = SliceOf(rloc.files)[w]]
       /\ IF rloc.pend = {w}
          THEN /\ rpc' = "write_serverData"
               /\ rloc' = [rloc EXCEPT !.pend = {"arr", "len"}]
          ELSE /\ rpc' = rpc
               /\ rloc' = [rloc EXCEPT !.pend = rloc.pend \ {w}]
  /\ UNCHANGED <<dir, dirReadable, clock, tz, mainpc, serverData, nticks,
                 hpc, hreq, hloc, resp, versions, lastTick>>
  /\ UNCHANGED pureVars

\* the loop without the store of line 1152
RefreshWriteServerData_mut ==
  /\ rpc = "write_serverData"
  /\ rpc' = "wait"
  /\ rloc' = NoLoad
  /\ UNCHANGED <<dir, dirReadable, clock, tz, mainpc, statsFiles, serverData, nticks,
                 hpc, hreq, hloc, resp, versions, lastTick>>
  /\ UNCHANGED pureVars

\* lines 1150-1152, serverData.Files = statsFiles: one word stored
RefreshWriteServerData ==
  /\ rpc = "write_serverData"
  /\ \E w \in rloc.pend :
       /\ serverData' = [serverData EXCEPT !.Files[w] = statsFiles[w]]
       /\ IF rloc.pend = {w}
          THEN /\ rpc' = "wait"
               /\ rloc' = NoLoad
          ELSE /\ rpc' = rpc
               /\ rloc' = [rloc EXCEPT !.pend = rloc.pend \ {w}]
  /\ UNCHANGED <<dir, dirReadable, clock, tz, mainpc, statsFiles, nticks,
                 hpc, hreq, hloc, resp, versions, lastTick>>
  /\ UNCHANGED pureVars

(***************************************************************************)
(* the handlers                                                            *)
(***************************************************************************)
\* strconv.Atoi on the texts a `file` parameter is drawn from
Atoi(cs) ==
  LET neg  == Len(cs) >= 1 /\ cs[1] = "-"
      body == IF Len(cs) >= 1 /\ cs[1] \in {"-", "+"} THEN Tail(cs) ELSE cs
  IN IF Len(body) >= 1 /\ IsDigits(body)
     THEN [val |-> IF neg THEN -DigitsVal(body) ELSE DigitsVal(body), err |-> FALSE]
     ELSE [val |-> 0, err |-> TRUE]

FileParams == {<<>>, <<"x">>, <<"-", "1">>, <<"1">>, <<"2">>}

\* the container IDs of the requests of the server runs
ServerRequestIDs == {"", "abc", "zzz"}

\* a request arrives; net/http runs its handler on a goroutine of its own
StartRequest ==
  /\ hpc = "idle"
  /\ resp' = NoResult
  /\ hloc' = NoLocals
  /\ \/ \E f \in FileParams :
          /\ hreq' = [op |-> "main", id |-> "", file |-> f]
          /\ hpc' = "main_check"
     \/ \E id \in ServerRequestIDs :
          /\ hreq' = [op |-> "api", id |-> id, file |-> <<>>]
          /\ hpc' = "api"
     \/ \E id \in ServerRequestIDs :
          /\ hreq' = [op |-> "page", id |-> id, file |-> <<>>]
          /\ hpc' = "page"
     \/ /\ hreq' = [op |-> "summary", id |-> "", file |-> <<>>]
        /\ hpc' = "summary_all"
  /\ UNCHANGED <<dir, dirReadable, clock, tz, mainpc, statsFiles, serverData, rpc, rloc,
                 nticks, versions, lastTick>>
  /\ UNCHANGED pureVars

\* handler "/", lines 1158-1163: the index is checked against len(statsFiles)
selectIndex(fileParam, n) ==
  IF fileParam # <<>> /\ ~Atoi(fileParam).err /\ Atoi(fileParam).val >= 0
     /\ Atoi(fileParam).val < n
  THEN Atoi(fileParam).val
  ELSE 0

MainCheck ==
  /\ hpc = "main_check"
  /\ hloc' = [selectedIndex |-> selectIndex(hreq.file, statsFiles.len)]
  /\ hpc' = "main_files"
  /\ UNCHANGED <<dir, dirReadable, clock, tz, mainpc, statsFiles, serverData, rpc, rloc,
                 nticks, hreq, resp, versions, lastTick>>
  /\ UNCHANGED pureVars

\* line 1166: Files: serverData.Files
MainReadFiles ==
  /\ hpc = "main_files"
  /\ hloc' = [selectedIndex |-> hloc.selectedIndex, Files |-> serverData.Files]
  /\ hpc' = "main_select"
  /\ UNCHANGED <<dir, dirReadable, clock, tz, mainpc, statsFiles, serverData, rpc, rloc,
                 nticks, hreq, resp, versions, lastTick>>
  /\ UNCHANGED pureVars

\* lines 1167-1175: SelectedFile: serverData.Files[selectedIndex], read anew;
\* the index is checked against the length word read here, a failed check
\* is a run-time panic
MainSelect ==
  /\ hpc = "main_select"
  /\ hpc' = "idle"
  /\ LET h == serverData.Files
     IN IF hloc.selectedIndex >= h.len
        THEN resp' = [op |-> "main", status |-> 500,
                      body |-> [panic |-> TRUE, SelectedIndex |-> hloc.selectedIndex,
                                indexed |-> h]]
        ELSE \E junk \in JunkFiles :
               resp' = [op |-> "main", status |-> 200,
                        body |-> [panic |-> FALSE,
                                  Files |-> SliceView(hloc.Files, junk),
                                  SelectedFile |-> SliceView(h, junk)[hloc.selectedIndex + 1],
                                  SelectedIndex |-> hloc.selectedIndex,
                                  indexed |-> h]]
  /\ UNCHANGED <<dir, dirReadable, clock, tz, mainpc, statsFiles, serverData, rpc, rloc,
                 nticks, hreq, hloc, versions, lastTick>>
  /\ UNCHANGED pureVars

\* the handler made to wait until the refresh loop is between two ticks,
\* as under a lock the loop holds for the whole of a tick
ApiContainer_mut ==
  /\ hpc = "api"
  /\ rpc = "wait"
  /\ hpc' = "idle"
  /\ \E junk \in JunkFiles :
       resp' = apiContainerHandler(SliceView(serverData.Files, junk), hreq.id)
  /\ UNCHANGED <<dir, dirReadable, clock, tz, mainpc, statsFiles, serverData, rpc, rloc,
                 nticks, hreq, hloc, versions, lastTick>>
  /\ UNCHANGED pureVars

\* handler "/api/container/", lines 1179-1197
ApiContainer ==
  /\ hpc = "api"
  /\ hpc' = "idle"
  /\ \E junk \in JunkFiles :
       resp' = apiContainerHandler(SliceView(serverData.Files, junk), hreq.id)
  /\ UNCHANGED <<dir, dirReadable, clock, tz, mainpc, statsFiles, serverData, rpc, rloc,
                 nticks, hreq, hloc, versions, lastTick>>
  /\ UNCHANGED pureVars

\* handler "/container/", lines 1200-1229
ContainerPage ==
  /\ hpc = "page"
  /\ hpc' = "idle"
  /\ \E junk \in JunkFiles :
       resp' = containerPageHandler(SliceView(serverData.Files, junk), hreq.id)
  /\ UNCHANGED <<dir, dirReadable, clock, tz, mainpc, statsFiles, serverData, rpc, rloc,
                 nticks, hreq, hloc, versions, lastTick>>
  /\ UNCHANGED pureVars

(***************************************************************************)
(* handler "/summary", lines 1232-1276                                     *)
(***************************************************************************)
\* sort.Slice less of sortedFiles: oldest first
lessOldestFile(a, b) == Before(a.Timestamp, b.Timestamp)

\* lines 1251-1258: the first summary with the highest MaxCPU and the first
\* with the most data points, as indices (0: nil)
RECURSIVE peakScan(_, _, _, _)
peakScan(summaries, i, highestPeakCPU, mostDataPoints) ==
  IF i > Len(summaries)
  THEN [highestPeakCPU |-> highestPeakCPU, mostDataPoints |-> mostDataPoints]
  ELSE peakScan(summaries, i + 1,
         IF highestPeakCPU = 0 \/ FloatGt(summaries[i].MaxCPU, summaries[highestPeakCPU].MaxCPU)
         THEN i ELSE highestPeakCPU,
         IF mostDataPoints = 0 \/ summaries[i].DataPoints > summaries[mostDataPoints].DataPoints
         THEN i ELSE mostDataPoints)

\* line 1233: summaries := getAllContainerSummaries(serverData.Files)
SummaryAll ==
  /\ hpc = "summary_all"
  /\ hpc' = "summary_len"
  /\ \E junk \in JunkFiles :
       LET files == SliceView(serverData.Files, junk)
       IN \E order \in MapOrders(containerKeys(files)) :
            hloc' = [selectedIndex |-> 0, summaries |-> getAllContainerSummaries(files, order),
                     first |-> <<>>, last |-> <<>>, n |-> 0]
  /\ UNCHANGED <<dir, dirReadable, clock, tz, mainpc, statsFiles, serverData, rpc, rloc,
                 nticks, hreq, resp, versions, lastTick>>
  /\ UNCHANGED pureVars

\* line 1239: if len(serverData.Files) > 0
SummaryLen ==
  /\ hpc = "summary_len"
  /\ hpc' = IF serverData.Files.len > 0 THEN "summary_make" ELSE "summary_total"
  /\ UNCHANGED <<dir, dirReadable, clock, tz, mainpc, statsFiles, serverData, rpc, rloc,
                 nticks, hreq, hloc, resp, versions, lastTick>>
  /\ UNCHANGED pureVars

\* line 1241: sortedFiles := make([]StatsFile, len(serverData.Files))
SummaryMake ==
  /\ hpc = "summary_make"
  /\ hpc' = "summary_copy"
  /\ hloc' = [hloc EXCEPT !.n = serverData.Files.len]
  /\ UNCHANGED <<dir, dirReadable, clock, tz, mainpc, statsFiles, serverData, rpc, rloc,
                 nticks, hreq, resp, versions, lastTick>>
  /\ UNCHANGED pureVars

\* lines 1242-1247 with the sort applied to serverData.Files itself
SummaryCopy_mut ==
  /\ hpc = "summary_copy"
  /\ \E junk \in JunkFiles :
       LET src == SliceView(serverData.Files, junk)
           copied == [k \in 1..hloc.n |-> IF k <= Len(src) THEN src[k] ELSE ZeroStatsFile]
           sortedFiles == sortSlice(copied, LessTable(copied, lessOldestFile))
       IN IF hloc.n = 0
          THEN /\ hpc' = "idle"
               /\ resp' = [op |-> "summary", status |-> 500, body |-> NoBody]
               /\ hloc' = hloc
               /\ serverData' = serverData
          ELSE /\ hpc' = "summary_total"
               /\ resp' = resp
               /\ hloc' = [hloc EXCEPT
                             !.first = <<FormatDisplay(sortedFiles[1].Timestamp)>>,
                             !.last = <<FormatDisplay(sortedFiles[hloc.n].Timestamp)>>]
               /\ serverData' =
                    [Files |-> [serverData.Files EXCEPT
                                  !.arr = sortSlice(@, LessTable(@, lessOldestFile))]]
  /\ UNCHANGED <<dir, dirReadable, clock, tz, mainpc, statsFiles, rpc, rloc,
                 nticks, hreq, versions, lastTick>>
  /\ UNCHANGED pureVars

\* lines 1242-1247: copy (as many elements as both slices hold, the rest
\* of sortedFiles stays zero), sort, first and last
SummaryCopy ==
  /\ hpc = "summary_copy"
  /\ \E junk \in JunkFiles :
       LET src == SliceView(serverData.Files, junk)
           copied == [k \in 1..hloc.n |-> IF k <= Len(src) THEN src[k] ELSE ZeroStatsFile]
           sortedFiles == sortSlice(copied, LessTable(copied, lessOldestFile))
       IN IF hloc.n = 0
          THEN /\ hpc' = "idle"
               /\ resp' = [op |-> "summary", status |-> 500, body |-> NoBody]
               /\ hloc' = hloc
          ELSE /\ hpc' = "summary_total"
               /\ resp' = resp
               /\ hloc' = [hloc EXCEPT
                             !.first = <<FormatDisplay(sortedFiles[1].Timestamp)>>,
                             !.last = <<FormatDisplay(sortedFiles[hloc.n].Timestamp)>>]
  /\ UNCHANGED <<dir, dirReadable, clock, tz, mainpc, statsFiles, serverData, rpc, rloc,
                 nticks, hreq, versions, lastTick>>
  /\ UNCHANGED pureVars

\* lines 1251-1275: the peaks, TotalFiles: len(serverData.Files), the page
SummaryTotal ==
  /\ hpc = "summary_total"
  /\ hpc' = "idle"
  /\ resp' = [op |-> "summary", status |-> 200,
              body |-> [Summaries |-> hloc.summaries,
                        TotalFiles |-> serverData.Files.len,
                        FirstTimestamp |-> hloc.first,
                        LastTimestamp |-> hloc.last,
                        HighestPeakCPU |-> peakScan(hloc.summaries, 1, 0, 0).highestPeakCPU,
                        MostDataPoints |-> peakScan(hloc.summaries, 1, 0, 0).mostDataPoints]]
  /\ UNCHANGED <<dir, dirReadable, clock, tz, mainpc, statsFiles, serverData, rpc, rloc,
                 nticks, hreq, hloc, versions, lastTick>>
  /\ UNCHANGED pureVars

Next ==
  \/ Startup
  \/ RefreshTick \/ RefreshRunFails \/ RefreshRunDone \/ RefreshLoad
  \/ RefreshWriteStatsFiles \/ RefreshWriteServerData
  \/ StartRequest
  \/ MainCheck \/ MainReadFiles \/ MainSelect
  \/ ApiContainer \/ ContainerPage
  \/ SummaryAll \/ SummaryLen \/ SummaryMake \/ SummaryCopy \/ SummaryTotal

Spec == Init /\ [][Next]_vars

(***************************************************************************)
(* The refresh loop under fairness.  The ticker delivers its ticks, the    *)
(* goroutine of the loop is scheduled, and bash run.sh returns (the code   *)
(* sets no timeout on it: that it returns is the assumption).  The request *)
(* handlers are left out: no step of theirs changes a variable the loop    *)
(* reads or writes, so they neither disable nor undo a step of the loop.   *)
(***************************************************************************)
FairRefreshTick == Tick(MaxFairTicks)

FairNext ==
  \/ Startup
  \/ FairRefreshTick \/ RefreshRunFails \/ RefreshRunDone \/ RefreshLoad
  \/ RefreshWriteStatsFiles \/ RefreshWriteServerData

FairSpec ==
  /\ Init /\ [][FairNext]_vars
  /\ WF_vars(Startup)
  /\ WF_vars(FairRefreshTick)
  /\ WF_vars(RefreshRunFails \/ RefreshRunDone)
  /\ WF_vars(RefreshLoad)
  /\ WF_vars(RefreshWriteStatsFiles)
  /\ WF_vars(RefreshWriteServerData)

(***************************************************************************)
(* The server while bash run.sh does not return.  cmd.Run() (line 1134)    *)
(* has no timeout and no cancellation: the loop takes a tick and stays in  *)
(* it.  A goroutine that serves a request is scheduled whenever it can     *)
(* take a step; the handlers take one request at a time here.              *)
(***************************************************************************)
\* the tick the loop is about to take, whatever their number
HangTick == Tick(nticks + 1)

\* a step of the request in progress
HandlerProgress ==
  \/ MainCheck \/ MainReadFiles \/ MainSelect
  \/ ApiContainer \/ ContainerPage
  \/ SummaryAll \/ SummaryLen \/ SummaryMake \/ SummaryCopy \/ SummaryTotal

HangNext ==
  \/ Startup
  \/ HangTick
  \/ StartRequest
  \/ MainCheck \/ MainReadFiles \/ MainSelect
  \/ ApiContainer \/ ContainerPage
  \/ SummaryAll \/ SummaryLen \/ SummaryMake \/ SummaryCopy \/ SummaryTotal

HangSpec == Init /\ [][HangNext]_vars /\ WF_vars(HandlerProgress)

(***************************************************************************)
(* Claims                                                                  *)
(***************************************************************************)
\* C1 (as claimed; refuted under Spec): every main-page request selects its
\* snapshot with an index inside the catalog it indexes: the handler never
\* panics with an index out of range and never reads behind the backing
\* array.
C1_IndexInBounds ==
  resp.op = "main" =>
    /\ ~resp.body.panic
    /\ resp.body.SelectedIndex < resp.body.indexed.len
    /\ resp.body.SelectedIndex < Len(resp.body.indexed.arr)

\* C2 (as claimed; refuted under Spec): in every main-page response the
\* listed snapshots are one catalog version and the selected snapshot is
\* the element at SelectedIndex of that list.
C2_SelectedFromListed ==
  (resp.op = "main" /\ resp.status = 200) =>
    /\ resp.body.Files \in versions
    /\ resp.body.SelectedIndex < Len(resp.body.Files)
    /\ resp.body.SelectedFile = resp.body.Files[resp.body.SelectedIndex + 1]

OldestStamps(c) ==
  {FormatDisplay(c[i].Timestamp) : i \in {j \in 1..Len(c) :
      \A k \in 1..Len(c) : c[j].Timestamp.ticks <= c[k].Timestamp.ticks}}

NewestStamps(c) ==
  {FormatDisplay(c[i].Timestamp) : i \in {j \in 1..Len(c) :
      \A k \in 1..Len(c) : c[j].Timestamp.ticks >= c[k].Timestamp.ticks}}

\* C3 (as claimed; refuted under Spec): in every summary-page response the
\* Summaries, the file count and the first and last timestamps all come
\* from one catalog version, first and last being its minimum and maximum
\* snapshot Timestamp.
C3_SummaryFromOneVersion ==
  (resp.op = "summary" /\ resp.status = 200) =>
    \E c \in versions :
      /\ resp.body.TotalFiles = Len(c)
      /\ \E order \in MapOrders(containerKeys(c)) :
           resp.body.Summaries = getAllContainerSummaries(c, order)
      /\ \E t \in OldestStamps(c) : resp.body.FirstTimestamp = <<t>>
      /\ \E t \in NewestStamps(c) : resp.body.LastTimestamp = <<t>>

\* C4 (as claimed; refuted under Spec): every response of the JSON API and
\* of the container detail page is what the handler computes from a single
\* catalog version, the one before or the one after a concurrent refresh.
C4_SeriesFromOneVersion ==
  /\ resp.op = "api" => \E c \in versions : resp = apiContainerHandler(c, hreq.id)
  /\ resp.op = "page" => \E c \in versions : resp = containerPageHandler(c, hreq.id)

\* C5: once a tick has met a failed collection step, a failed reload or a
\* reload of zero snapshots, the Store (and statsFiles) is what it was when
\* the tick began.
C5_FailedTickKeepsStore ==
  (lastTick.cmdErr \/ lastTick.loadErr \/ lastTick.n = 0) =>
    /\ serverData.Files = lastTick.sd
    /\ statsFiles = lastTick.sf

\* C5 witness: an empty reload has been handled and the loop waits again.
C5_Witness ==
  /\ rpc = "wait" /\ nticks >= 1
  /\ ~lastTick.cmdErr /\ ~lastTick.loadErr /\ lastTick.n = 0
  /\ dirReadable
  /\ serverData.Files.len >= 1

\* C6: while the server serves, both words of the Store's header denote at
\* least one snapshot and every catalog built for the Store has at least
\* one; after a failed or empty first load nothing serves.
C6_ServingStoreNonEmpty ==
  /\ mainpc = "serving" =>
       /\ serverData.Files.len >= 1
       /\ Len(serverData.Files.arr) >= 1
       /\ \A c \in versions : Len(c) >= 1
  /\ mainpc # "serving" => (hpc = "off" /\ rpc = "off")
  /\ hpc # "off" => mainpc = "serving"

\* C6 witness: the server serves a catalog that a refresh has published.
C6_Witness ==
  /\ mainpc = "serving" /\ rpc = "wait" /\ nticks >= 1
  /\ lastTick.n >= 1
  /\ serverData.Files # lastTick.sd
  /\ hpc # "idle"

\* the snapshot files of a directory, and those of them that parse
SnapshotFiles(d) == {i \in d : ~Universe[i].isDir /\ HasJsonSuffix(Universe[i])}

WellFormed(d) ==
  {i \in SnapshotFiles(d) :
     /\ Universe[i].canOpen
     /\ \A k \in 1..Len(Universe[i].lines) :
          Universe[i].lines[k].kind \notin {"bad", "long"}}

\* the records of entry i: its lines that are not blank, in file order
RecordsOf(i) ==
  LET recs == SelectSeq(Universe[i].lines, LAMBDA l : l.kind = "rec")
  IN [j \in 1..Len(recs) |-> recs[j].stat]

\* C7: a load of a readable directory with N well-formed and M malformed
\* snapshot files returns no error and exactly N snapshots, one for each
\* well-formed file; an unreadable directory is the only error.
C7_LoadKeepsWellFormed ==
  loaded.done =>
    /\ loaded.err = ~dirReadable
    /\ dirReadable =>
         /\ Len(loaded.files) = Cardinality(WellFormed(dir))
         /\ \A i \in WellFormed(dir) :
              \E k \in 1..Len(loaded.files) :
                /\ loaded.files[k].Name = Universe[i].parts
                /\ loaded.files[k].Stats = RecordsOf(i)

\* C7 witness: a load of a directory with well-formed and malformed files.
C7_Witness ==
  /\ loaded.done /\ ~loaded.err
  /\ Cardinality(WellFormed(dir)) >= 2
  /\ SnapshotFiles(dir) \ WellFormed(dir) # {}
  /\ Len(loaded.files) = 2

\* C8: every catalog the loader returns is sorted by Timestamp descending:
\* no snapshot is older than the one after it.
C8_CatalogNewestFirst ==
  (loaded.done /\ ~loaded.err) =>
    \A i \in 1..(Len(loaded.files) - 1) :
      loaded.files[i].Timestamp.ticks >= loaded.files[i + 1].Timestamp.ticks

\* C8 witness: a catalog of three snapshots, two of them of one instant,
\* whose newest file is not the first of the directory listing.
C8_Witness ==
  /\ loaded.done /\ ~loaded.err /\ Len(loaded.files) = 3
  /\ loaded.files[1].Timestamp.ticks > loaded.files[2].Timestamp.ticks
  /\ loaded.files[2].Timestamp.ticks = loaded.files[3].Timestamp.ticks
  /\ loaded.files[1].Name # ReadDir(dir)[1].parts

\* the data points of a result, if it carries a series
SeriesOf(r) ==
  IF r.status # 200 THEN <<>>
  ELSE IF r.op \in {"series", "api"} THEN r.body.Data
  ELSE IF r.op \in {"stats", "page"} THEN r.body.ContainerComparison.Data
  ELSE <<>>

\* C9: every reconstructed Container Series is sorted by Timestamp
\* ascending: no data point shows a later time than the one after it.
C9_SeriesOldestFirst ==
  \A i \in 1..(Len(SeriesOf(qout)) - 1) :
    SeriesOf(qout)[i].Timestamp <= SeriesOf(qout)[i + 1].Timestamp

\* C9 witness: a series of three points over a catalog of three snapshots,
\* with a strictly later point after the first.
C9_Witness ==
  /\ qout.op = "series" /\ Len(loaded.files) = 3
  /\ Len(SeriesOf(qout)) = 3
  /\ SeriesOf(qout)[1].Timestamp < SeriesOf(qout)[3].Timestamp

\* containerID matches no Record of any snapshot of the catalog
Absent(files, containerID) ==
  \A k \in 1..Len(scanOrder(files)) : scanOrder(files)[k].stat.ID # containerID

StatsAllZero(b) ==
  /\ b.AvgCPU = ZeroFloat /\ b.MaxCPU = ZeroFloat /\ b.MinCPU = ZeroFloat
  /\ b.AvgMem = ZeroFloat /\ b.MaxMem = ZeroFloat /\ b.MinMem = ZeroFloat

FloatEq(x, y) ==
  /\ x.k # "nan" /\ y.k # "nan"
  /\ (x = y \/ (IsZero(x) /\ IsZero(y)))

FloatLe(x, y) == FloatLt(x, y) \/ FloatEq(x, y)

\* the Records of a catalog that match an ID, in scan order
Matching(files, containerID) ==
  SelectSeq(scanOrder(files), LAMBDA r : r.stat.ID = containerID)

\* avg, max, min are the mean, the largest and the smallest of vals
IsStatsOf(vals, avg, max, min) ==
  /\ \E k \in 1..Len(vals) : vals[k] = max
  /\ \E k \in 1..Len(vals) : vals[k] = min
  /\ \A k \in 1..Len(vals) : FloatLe(vals[k], max) /\ FloatLe(min, vals[k])
  /\ FloatLe(min, avg) /\ FloatLe(avg, max)

\* C11 (as claimed; refuted under PureSpec): for an ID with at least one
\* matching Record the series has exactly one data point per matching
\* Record, and for CPU and for memory the maximum is the largest value, the
\* minimum the smallest, and the average lies between them.
C11_StatsOfSeries ==
  (qin.op = "stats" /\ Matching(loaded.files, qin.id) # <<>>) =>
    LET b    == qout.body
        data == b.ContainerComparison.Data
    IN /\ Len(data) = Len(Matching(loaded.files, qin.id))
       /\ IsStatsOf([k \in 1..Len(data) |-> data[k].CPUPerc], b.AvgCPU, b.MaxCPU, b.MinCPU)
       /\ IsStatsOf([k \in 1..Len(data) |-> data[k].MemPerc], b.AvgMem, b.MaxMem, b.MinMem)

\* the part of C11 on values that are all numbers: three Records of one
\* CPU value 0.10 have an average above it
C11_FiniteStatsOfSeries ==
  (/\ qin.op = "stats" /\ Matching(loaded.files, qin.id) # <<>>
   /\ \A k \in 1..Len(qout.body.ContainerComparison.Data) :
        /\ qout.body.ContainerComparison.Data[k].CPUPerc.k = "fin"
        /\ qout.body.ContainerComparison.Data[k].MemPerc.k = "fin") =>
    C11_StatsOfSeries

\* the short IDs that occur in a catalog
IDsOf(files) == {scanOrder(files)[k].stat.ID : k \in 1..Len(scanOrder(files))}

\* C12: the all-containers aggregation returns exactly one Summary for each
\* short ID of the catalog, and the point count, average, max and min (CPU
\* and memory) of each are those the single-container aggregation computes
\* for that ID over the same catalog (the same float64 values, bit for bit).
C12_SummariesMatchSeriesStats ==
  qin.op = "summaries" =>
    /\ Len(qout.body) = Cardinality(IDsOf(loaded.files))
    /\ {qout.body[k].ContainerID : k \in 1..Len(qout.body)} = IDsOf(loaded.files)
    /\ \A k \in 1..Len(qout.body) :
         LET s == qout.body[k]
             c == getContainerComparisonWithStats(loaded.files, s.ContainerID)
         IN /\ s.DataPoints = Len(c.ContainerComparison.Data)
            /\ s.AvgCPU = c.AvgCPU /\ s.MaxCPU = c.MaxCPU /\ s.MinCPU = c.MinCPU
            /\ s.AvgMem = c.AvgMem /\ s.MaxMem = c.MaxMem /\ s.MinMem = c.MinMem

\* C12 witness: Summaries of two containers, one of them with three points
\* whose memory values differ.
C12_Witness ==
  /\ qin.op = "summaries" /\ Len(qout.body) = 2
  /\ \E k \in 1..2 :
       /\ qout.body[k].DataPoints = 3
       /\ FloatLt(qout.body[k].MinMem, qout.body[k].AvgMem)
       /\ FloatLt(qout.body[k].AvgMem, qout.body[k].MaxMem)

\* the first non-empty Name among the Records matching an ID, in scan
\* order; empty if there is none
FirstNonEmptyName(files, containerID) ==
  LET named == SelectSeq(Matching(files, containerID), LAMBDA r : r.stat.Name # "")
  IN IF named = <<>> THEN "" ELSE named[1].stat.Name

\* C13 (as claimed; refuted under PureSpec): the display name of a
\* container, in its Container Series and in its Container Summary, is the
\* first non-empty Name among its matching Records in catalog scan order.
C13_NameIsFirstNonEmpty ==
  /\ (qin.op \in {"series", "api"} /\ qout.status = 200) =>
       qout.body.ContainerName = FirstNonEmptyName(loaded.files, qin.id)
  /\ (qin.op \in {"stats", "page"} /\ qout.status = 200) =>
       qout.body.ContainerComparison.ContainerName
         = FirstNonEmptyName(loaded.files, qin.id)
  /\ qin.op = "summaries" =>
       \A k \in 1..Len(qout.body) :
         qout.body[k].ContainerName
           = FirstNonEmptyName(loaded.files, qout.body[k].ContainerID)

\* C14 (as claimed; refuted under PureSpec): the Summaries of the
\* all-containers aggregation are ordered by average CPU descending: no
\* Summary has a smaller average CPU than the one after it.
C14_SummariesByAvgCPU ==
  qin.op = "summaries" =>
    \A i \in 1..(Len(qout.body) - 1) :
      FloatLe(qout.body[i + 1].AvgCPU, qout.body[i].AvgCPU)

\* the part of C14 on catalogs whose averages are all numbers
C14_FiniteSummariesByAvgCPU ==
  (/\ qin.op = "summaries"
   /\ \A k \in 1..Len(qout.body) : qout.body[k].AvgCPU.k = "fin") =>
    C14_SummariesByAvgCPU

\* C15 (as claimed; refuted under PureSpec): the all-containers aggregation
\* run a second time over the unchanged catalog returns what the first run
\* returned: the same Summaries, the same values, the same order.
C15_SummariesRepeatable ==
  qout.op = "again" => qout.body = qout.before

\* the part of C15 without the order: the two runs return the same
\* Summaries
C15_SameSummariesAsSet ==
  qout.op = "again" =>
    {qout.body[k] : k \in 1..Len(qout.body)}
      = {qout.before[k] : k \in 1..Len(qout.before)}

\* the part of C15 on catalogs whose averages are all numbers: two
\* containers of equal average CPU come in either order
C15_FiniteSummariesRepeatable ==
  (/\ qout.op = "again"
   /\ \A k \in 1..Len(qout.body) : qout.body[k].AvgCPU.k = "fin") =>
    C15_SummariesRepeatable

\* the first two "_"-separated segments of a base name, joined, parse as
\* YYYY-MM-DD_HH-MM-SS
LeadingStampParses(parts) ==
  Len(parts) >= 2 /\ ParseFileLayout(parts[1], parts[2]).ok

\* the readings of the wall clock during the load that has just ended
LoadClocks == (clock - Cardinality(dir))..(clock - 1)

\* C16: a Snapshot whose base name has at least two segments of which the
\* first two, joined with "_", parse as YYYY-MM-DD_HH-MM-SS has that
\* instant as its Timestamp; every other Snapshot has the wall-clock time
\* of its load.
C16_TimestampFromName ==
  (loaded.done /\ ~loaded.err) =>
    \A k \in 1..Len(loaded.files) :
      LET f == loaded.files[k]
      IN IF LeadingStampParses(f.Name)
         THEN f.Timestamp = ParseFileLayout(f.Name[1], f.Name[2]).t
         ELSE \E c \in LoadClocks : f.Timestamp = Now(c, tz)

\* C16 witness: a catalog with a Snapshot stamped by its name, one whose
\* name has two segments, the second ending in the extension, and one
\* whose name has no date.
C16_Witness ==
  /\ loaded.done /\ ~loaded.err /\ Len(loaded.files) = 3
  /\ \E k \in 1..3 : LeadingStampParses(loaded.files[k].Name)
  /\ \E k \in 1..3 : /\ Len(loaded.files[k].Name) = 2
                     /\ loaded.files[k].Name[1].s \in DOMAIN DateVal
                     /\ loaded.files[k].Name[2].s \in DOMAIN TimeVal
  /\ \E k \in 1..3 : loaded.files[k].Name[1].s \notin DOMAIN DateVal

\* a percentage text, its "%" stripped, is missing or malformed: it is no
\* numeral of a float64 number (the parser rejects it, or reads it as NaN
\* or an infinity)
Malformed(cs) ==
  LET r == ParseFloat(TrimSuffixPct(cs)) IN r.err \/ r.val.k # "fin"

\* data point p is made of Record r of a snapshot: the time and the raw
\* texts are the Record's, and a missing or malformed percentage is 0
PointOfRecord(p, r) ==
  /\ p.Timestamp = FormatDisplay(r.ts)
  /\ p.MemUsage = r.stat.MemUsage /\ p.NetIO = r.stat.NetIO
  /\ p.BlockIO = r.stat.BlockIO /\ p.PIDs = r.stat.PIDs
  /\ Malformed(r.stat.CPUPerc) => p.CPUPerc = ZeroFloat
  /\ Malformed(r.stat.MemPerc) => p.MemPerc = ZeroFloat

\* C17 (as claimed; refuted under PureSpec): every matching Record yields a
\* data point, none is dropped and no query fails; a CPU or memory
\* percentage text that is missing or malformed gives the value 0, and the
\* memory-usage, network-I/O, block-I/O and PIDs texts of the point are the
\* Record's.
C17_MalformedPercentIsZero ==
  (qin.op \in {"series", "stats", "api", "page"}
     /\ Matching(loaded.files, qin.id) # <<>>) =>
    LET recs == Matching(loaded.files, qin.id)
        data == SeriesOf(qout)
    IN /\ qout.status = 200
       /\ Len(data) = Len(recs)
       /\ \A i \in 1..Len(recs) : \E k \in 1..Len(data) : PointOfRecord(data[k], recs[i])

\* the part of C17 on Records none of whose percentage texts the parser
\* reads as NaN or as an infinity: a missing text and a text that is no
\* numeral ("", "--") give 0
C17_SyntaxErrorIsZero ==
  (/\ qin.op \in {"series", "stats", "api", "page"}
   /\ \A i \in 1..Len(Matching(loaded.files, qin.id)) :
        LET st == Matching(loaded.files, qin.id)[i].stat
        IN /\ ParseFloat(TrimSuffixPct(st.CPUPerc)).val.k = "fin"
           /\ ParseFloat(TrimSuffixPct(st.MemPerc)).val.k = "fin") =>
    C17_MalformedPercentIsZero

(***************************************************************************)
(* C18: the queries are read-only on the Store                             *)
(***************************************************************************)
\* a step of a request handler: the handler moves on, or answers
HandlerStep == hpc' # hpc \/ hloc' # hloc \/ resp' # resp \/ hreq' # hreq

\* a store of the refresh goroutine, lines 1149 and 1152
RefreshStoreStep ==
  /\ rpc \in {"write_statsFiles", "write_serverData"}
  /\ rloc' # rloc

\* C18 (confirmed under Spec): no step of a query handler (main page,
\* container series, container page with statistics, all-containers summary)
\* changes the Store: the slice headers statsFiles and serverData.Files and
\* the backing arrays they refer to, with the snapshots and Records in
\* them, are the same after the step as before; once the server serves, the
\* only steps that change them are the two stores of the refresh goroutine.
C18_QueriesLeaveStore ==
  [][ /\ (mainpc = "serving" /\ HandlerStep) =>
           (statsFiles' = statsFiles /\ serverData' = serverData)
      /\ (mainpc = "serving" /\ (statsFiles' # statsFiles \/ serverData' # serverData)) =>
           RefreshStoreStep ]_vars

\* a summary page has been answered from a Store of two snapshots, which
\* the handler had to put into the opposite order for its first and last
\* time
C18_Witness ==
  /\ resp.op = "summary" /\ resp.status = 200
  /\ hpc = "idle"
  /\ serverData.Files.len = 2 /\ Len(serverData.Files.arr) = 2
  /\ resp.body.TotalFiles = 2
  /\ resp.body.FirstTimestamp # resp.body.LastTimestamp

(***************************************************************************)
(* C19: the parser is all-or-nothing per file                              *)
(***************************************************************************)
\* the elements of the loaded catalog that were made from entry i
FromEntry(i) == {k \in 1..Len(loaded.files) : loaded.files[k].Name = Universe[i].parts}

\* entry i has a line of the kind before which a Record was read
HasLineAfterRecord(i, kind) ==
  \E k \in 2..Len(Universe[i].lines) :
    /\ Universe[i].lines[k].kind = kind
    /\ \E j \in 1..(k - 1) : Universe[i].lines[j].kind = "rec"

\* C19 (confirmed under PureSpec): for every snapshot file handed to the
\* parser: if it can be read and each of its non-blank lines decodes, the
\* parser returns no error and a Snapshot whose Records are exactly those
\* lines in file order, blank lines skipped, and that Snapshot is in the
\* catalog once; if one line fails to decode or the file cannot be opened or
\* read, the parser returns an error and the zero StatsFile, and the catalog
\* has no Snapshot of that file, not even one with the Records read before
\* the failure.
C19_ParserAllOrNothing ==
  (loaded.done /\ ~loaded.err) =>
    \A i \in SnapshotFiles(dir) :
      LET r == parseStatsFile(Universe[i], Now(clock, tz))
      IN IF i \in WellFormed(dir)
         THEN /\ ~r.err
              /\ r.file.Name = Universe[i].parts
              /\ r.file.Stats = RecordsOf(i)
              /\ Cardinality(FromEntry(i)) = 1
              /\ \A k \in FromEntry(i) : loaded.files[k].Stats = RecordsOf(i)
         ELSE /\ r.err
              /\ r.file = ZeroStatsFile
              /\ FromEntry(i) = {}

\* C19 witness: a directory has been loaded that holds a file whose line
\* fails to decode after a Record, a file that cannot be read to its end
\* after a Record, and a file with a blank line whose lines all decode; the
\* catalog holds the last one only.
C19_Witness ==
  /\ loaded.done /\ ~loaded.err
  /\ \E i \in SnapshotFiles(dir) : HasLineAfterRecord(i, "bad")
  /\ \E i \in SnapshotFiles(dir) : HasLineAfterRecord(i, "long")
  /\ \E i \in WellFormed(dir) : HasLineAfterRecord(i, "blank")
  /\ Len(loaded.files) = 1

(***************************************************************************)
(* C20: what a tick of the refresh loop leads to                           *)
(***************************************************************************)
\* the handled tick ran run.sh and reloaded at least one snapshot
TickSucceeded == ~lastTick.cmdErr /\ ~lastTick.loadErr /\ lastTick.n >= 1

\* the loop has finished tick n and waits for the next
TickHandled(n) ==
  /\ nticks = n /\ rpc = "wait"
  /\ IF TickSucceeded
     THEN /\ statsFiles = SliceOf(lastTick.files)
          /\ serverData.Files = SliceOf(lastTick.files)
     ELSE /\ statsFiles = lastTick.sf
          /\ serverData.Files = lastTick.sd

\* C20 (confirmed under FairSpec): every tick the loop takes up is handled
\* to its end: if run.sh succeeded and the reload gave at least one
\* snapshot, both Store variables hold exactly the catalog that reload
\* returned when the loop waits again, which is before it takes the next
\* tick; otherwise the Store is as it was when the tick began.  A tick runs
\* run.sh and the reload at most once (a failure is not retried: the loop
\* enters "run" only by taking a new tick, and "load" only from "run"), and
\* after every tick, failed or not, the loop takes the following tick.
C20_TickInstallsAndLoopGoesOn ==
  /\ \A n \in 1..MaxFairTicks : (nticks = n /\ rpc = "run") ~> TickHandled(n)
  /\ \A n \in 1..(MaxFairTicks - 1) :
       (nticks = n /\ rpc = "wait") ~> (nticks = n + 1 /\ rpc = "run")
  /\ [][ /\ (rpc' = "run" /\ rpc # "run") => (rpc = "wait" /\ nticks' = nticks + 1)
         /\ (rpc' = "load" /\ rpc # "load") => (rpc = "run" /\ nticks' = nticks)
         /\ (nticks' # nticks) => (rpc = "wait" /\ rpc' = "run") ]_vars

\* C20 witness: the second tick has been handled and has put a catalog into
\* the Store that is not the one the Store held when the tick began.
C20_Witness ==
  /\ nticks = 2 /\ rpc = "wait"
  /\ TickSucceeded
  /\ serverData.Files = SliceOf(lastTick.files)
  /\ statsFiles = SliceOf(lastTick.files)
  /\ serverData.Files # lastTick.sd

(***************************************************************************)
(* C21: the queries while run.sh hangs                                     *)
(***************************************************************************)
\* the Store is the catalog published before the tick began: both headers
\* whole, as they were when the tick was taken, and of a loaded catalog
PreviouslyPublished ==
  /\ statsFiles = lastTick.sf
  /\ serverData.Files = lastTick.sd
  /\ serverData.Files = SliceOf(serverData.Files.arr)
  /\ statsFiles = serverData.Files
  /\ serverData.Files.arr \in versions

SeenAt(files, containerID) ==
  [k \in 1..Len(Matching(files, containerID)) |-> Matching(files, containerID)[k].ts]

\* t is no later (no earlier) than every Timestamp of the sequence ts
IsEarliest(t, ts) == \A k \in 1..Len(ts) : ~Before(ts[k], t)

IsLatest(t, ts) == \A k \in 1..Len(ts) : ~After(ts[k], t)

RECURSIVE SumPoints(_)
SumPoints(summaries) ==
  IF summaries = <<>> THEN 0
  ELSE Head(summaries).DataPoints + SumPoints(Tail(summaries))

\* C22 (as claimed; refuted under PureSpec): for every Summary of the
\* all-containers aggregation FirstSeen shows the earliest and LastSeen the
\* latest snapshot Timestamp among the snapshots holding a Record of its
\* ID, FirstSeen <= LastSeen, its point count is the number of such
\* Records, and the point counts of all Summaries add up to the number of
\* Records of the catalog.
C22_SeenSpanAndCounts ==
  qin.op = "summaries" =>
    /\ \A k \in 1..Len(qout.body) :
         LET s  == qout.body[k]
             ts == SeenAt(loaded.files, s.ContainerID)
         IN /\ \E i \in 1..Len(ts) :
                 IsEarliest(ts[i], ts) /\ s.FirstSeen = FormatDisplay(ts[i])
            /\ \E i \in 1..Len(ts) :
                 IsLatest(ts[i], ts) /\ s.LastSeen = FormatDisplay(ts[i])
            /\ s.FirstSeen <= s.LastSeen
            /\ s.DataPoints = Len(ts)
    /\ SumPoints(qout.body) = Len(scanOrder(loaded.files))

====
